---- MODULE Spec2Model ----
(***************************************************************************)
(* Kraken OCR front end: the Run OCR pipeline of src/app_streamlit.py (the *)
(* "plain" variant) and of the thresholding script nested in src/app.py    *)
(* lines 89-238 (the "thresh" variant).                                    *)
(*                                                                         *)
(* src/app.py as committed nests the thresholding script in the try block  *)
(* opened at line 74, which has no except clause, so the file as a whole   *)
(* does not compile.  The thresholding script is modelled by itself, as    *)
(* the statements of lines 89-238 read.                                    *)
(*                                                                         *)
(* A text is a sequence of one-character strings; the fixed messages of    *)
(* the program are single tokens.                                          *)
(***************************************************************************)
EXTENDS Integers, Sequences, FiniteSets, TLC

\* ---------------------------------------------------------------- bounds
MaxLen == 1
MaxPreds == 2
MaxRuns == 2
MaxApply == 2
MaxPixels == 2
MaxFullRuns == 1

\* ------------------------------------------------- environment's inputs
Variants == {"plain", "thresh"}

\* bytes of the output file: a letter, LF, CR, and a byte that is not UTF-8
Bytes == {"a", "\n", "\r", "XX"}

RECURSIVE SeqsUpTo(_, _)
SeqsUpTo(S, n) ==
    IF n = 0 THEN {<<>>}
    ELSE LET shorter == SeqsUpTo(S, n - 1)
         IN  shorter \cup {Append(s, x) : s \in shorter, x \in S}

FileContents == SeqsUpTo(Bytes, MaxLen)

\* captured stdout / stderr of the kraken process
Outs == {"", "out"}
Errs == {"", "err"}
ExitCodes == {"1", "2"}

\* messages of the exceptions the environment raises
Msgs == {"m1", "m2"}

\* the uploaded file, by what PIL can do with it
Files == [present : {TRUE}, openOK : BOOLEAN, grayOK : BOOLEAN, rgbOK : BOOLEAN]
NoFile == [present |-> FALSE, openOK |-> FALSE, grayOK |-> FALSE, rgbOK |-> FALSE]

\* values a fallback call can return: elements are strings or other objects
StrElem(s) == [tag |-> "str", s |-> s, n |-> 0]
IntElem(n) == [tag |-> "int", s |-> <<>>, n |-> n]
Elems == {StrElem(<<>>), StrElem(<<"x">>), StrElem(<<"y">>), IntElem(7)}
ElemSeqs == SeqsUpTo(Elems, MaxPreds)
Preds == [type : {"list", "tuple"}, items : ElemSeqs]
           \cup [type : {"scalar"}, items : {<<e>> : e \in Elems}]

\* ------------------------------------------------------- text functions
\* open(output_path, "r", encoding="utf8").read(): strict UTF-8 decoding
ValidUtf8(bytes) == \A i \in 1..Len(bytes) : bytes[i] # "XX"

\* ... and text mode with newline=None: "\r\n" and "\r" are read as "\n"
RECURSIVE UniversalNewlines(_)
UniversalNewlines(s) ==
    IF s = <<>> THEN <<>>
    ELSE IF Head(s) = "\r"
         THEN IF Len(s) >= 2 /\ s[2] = "\n"
              THEN <<"\n">> \o UniversalNewlines(SubSeq(s, 3, Len(s)))
              ELSE <<"\n">> \o UniversalNewlines(Tail(s))
         ELSE <<Head(s)>> \o UniversalNewlines(Tail(s))

ReadText(bytes) == UniversalNewlines(bytes)

\* str(p) of an element of a fallback result
StrOfElem(e) == IF e.tag = "str" THEN e.s ELSE <<"7">>

\* repr(p), as str() of a tuple writes its elements
ReprOfElem(e) == IF e.tag = "str" THEN <<"'">> \o e.s \o <<"'">> ELSE <<"7">>

\* sep.join(parts)
RECURSIVE Join(_, _)
Join(parts, sep) ==
    IF parts = <<>> THEN <<>>
    ELSE IF Len(parts) = 1 THEN parts[1]
    ELSE parts[1] \o sep \o Join(Tail(parts), sep)

\* str(preds) of a result that is not a list
StrOfPreds(preds) ==
    IF preds.type = "scalar" THEN StrOfElem(preds.items[1])
    ELSE \* a tuple: "(a, b)", "(a,)", "()"
      LET reprs == [i \in 1..Len(preds.items) |-> ReprOfElem(preds.items[i])]
      IN  <<"(">> \o Join(reprs, <<",", " ">>)
                 \o (IF Len(reprs) = 1 THEN <<",">> ELSE <<>>) \o <<")">>

\* isinstance(preds, list)
IsList(preds) == preds.type = "list"

\* if isinstance(preds, list): "\n".join([str(p) for p in preds]) else str(preds)
NormalizePreds(preds) ==
    IF IsList(preds)
    THEN Join([i \in 1..Len(preds.items) |-> StrOfElem(preds.items[i])], <<"\n">>)
    ELSE StrOfPreds(preds)

\* ------------------------------------------------------------ threshold
\* an image is its mode and its pixels, each pixel the tuple of its channels
Img(mode, px) == [mode |-> mode, px |-> px]
NoImage == Img("none", <<>>)

Intensities == 0..255
SamplePixels == {0, 128, 255}

\* uploads of the threshold specification: every one-pixel grayscale image,
\* longer grayscale images and one-pixel RGB images over the sample values
GrayImages ==
    {Img("L", <<(<<v>>)>>) : v \in Intensities}
      \cup {Img("L", px) : px \in SeqsUpTo({<<v>> : v \in SamplePixels}, MaxPixels) \ {<<>>}}
RgbImages ==
    {Img("RGB", <<(<<r, g, b>>)>>) : r \in SamplePixels, g \in SamplePixels, b \in SamplePixels}
Images == GrayImages \cup RgbImages

\* image.convert("L"): a copy of a grayscale image; ITU-R 601-2 luma of RGB
Luma(c) == (c[1] * 19595 + c[2] * 38470 + c[3] * 7471 + 32768) \div 65536

ConvertL(img) ==
    IF img.mode = "L" THEN img
    ELSE Img("L", [k \in 1..Len(img.px) |-> <<Luma(img.px[k])>>])

\* a threshold that also whitens the pixels equal to the cutoff
MutThresholdPoint(p, thresh) == IF p >= thresh THEN 255 ELSE 0

\* lambda p: 255 if p > thresh else 0
ThresholdPoint(p, thresh) == IF p > thresh THEN 255 ELSE 0

\* a lookup table that turns the image black and white the other way round
MutLut(thresh) == [p \in Intensities |-> IF p > thresh THEN 0 ELSE 255]

\* the lookup table Image.point builds from the lambda
Lut(thresh) == [p \in Intensities |-> ThresholdPoint(p, thresh)]

\* gray.point(lut): every pixel replaced by its table entry
Point(gray, lut) == Img(gray.mode, [k \in 1..Len(gray.px) |-> <<lut[gray.px[k][1]]>>])

\* apply_threshold(image, thresh)
apply_threshold(img, thresh) == Point(ConvertL(img), Lut(thresh))

\* ------------------------------------------------------------ the page
\* one element written to the page by an st.* call
W(kind, text, args) == [kind |-> kind, text |-> text, args |-> args]

NoneText == [isNone |-> TRUE, s |-> <<>>]
SomeText(s) == [isNone |-> FALSE, s |-> s]

\* Python's truth value of result_text: None and "" are false
Truthy(rt) == ~rt.isNone /\ rt.s # <<>>

NoPreds == [type |-> "none", items |-> <<>>]
NoProc == [outcome |-> "none", tmpdir |-> 0, saved |-> "none",
           out |-> "", err |-> "", code |-> "0",
           wrote |-> FALSE, written |-> <<>>, exists |-> FALSE, bytes |-> <<>>]

\* names tempfile.mkdtemp can give a directory; 0 is no directory
Dirs == 1..MaxRuns

\* the file output.txt of a workspace and the invocation that wrote it
NoOutput == [exists |-> FALSE, bytes |-> <<>>, writer |-> 0]
Output(bytes, k) == [exists |-> TRUE, bytes |-> bytes, writer |-> k]

VARIABLES
    variant,      \* which script is running
    file,         \* uploaded_file, by what PIL can do with it
    image,        \* the image OCR is run on: image (plain), processed (thresh)
    pc,           \* position of the script run
    ui,           \* the elements the current script run has written
    result_text,  \* result_text of the thresholding script
    runs,         \* number of tempfile.mkdtemp() calls so far
    proc,         \* what subprocess.run did in this invocation
    loaded,       \* what the import and load_any_model did in this invocation
    calls,        \* the fallback calls of this invocation, in order
    fallbacks,    \* times this invocation entered the fallback
    escaped,      \* the exception that left the script, "none" if none
    workspaces,   \* the temporary directories that exist
    tmpdirs,      \* tmpdir of each invocation so far, in order
    fs            \* output.txt of each directory

\* the threshold preview
VARIABLES
    threshold,    \* the Binarization Threshold slider
    orig,         \* the pixels of the opened upload
    processed,    \* the pixels of apply_threshold's result
    previous,     \* the result of the application before the last one
    applied       \* number of applications of apply_threshold to the upload

tvars == <<threshold, orig, processed, previous, applied>>

vars == <<variant, file, image, pc, ui, result_text, runs, proc, loaded,
          calls, fallbacks, escaped, workspaces, tmpdirs, fs, tvars>>

\* --------------------------------------------------- top of the script
\* the image the upload decodes to, "none" when no attempt succeeds
DecodedImage(v, f) ==
    IF v = "plain"
    THEN IF f.openOK /\ f.grayOK THEN "L"
         ELSE IF f.openOK /\ f.rgbOK THEN "RGB"
         ELSE "none"
    ELSE IF f.openOK /\ f.grayOK THEN "BW" ELSE "none"

\* the pixel data of the upload can be loaded (st.image needs it)
Loads(f) == f.openOK /\ (f.grayOK \/ f.rgbOK)

\* what the script writes from the upload to the Run OCR button
TopWidgets(v, f) ==
    IF v = "plain"
    THEN IF DecodedImage(v, f) = "none" THEN <<>>
         ELSE << W("image", <<"Uploaded image">>, <<DecodedImage(v, f)>>),
                 W("button", <<"Run OCR">>, <<>>) >>
    ELSE IF ~f.openOK
         THEN << W("error", <<"Failed to open image: ", "UnidentifiedImageError">>, <<>>) >>
         ELSE << W("subheader", <<"Original Image">>, <<>>) >>
              \o (IF ~Loads(f) THEN <<>> ELSE << W("image", <<>>, <<"orig">>) >>)
              \o (IF ~f.grayOK THEN <<>>
                  ELSE << W("subheader", <<"Processed Image (Black & White)">>, <<>>),
                          W("image", <<"Threshold">>, <<"BW">>),
                          W("button", <<"Run OCR">>, <<>>) >>)

\* the exception that leaves the top of the script, "none" if none does:
\* the second Image.open(...).convert of the plain script, st.image(orig) and
\* apply_threshold of the thresholding script are outside any try
TopEscapes(v, f) ==
    IF v = "plain"
    THEN IF DecodedImage(v, f) = "none" THEN "DecodeError" ELSE "none"
    ELSE IF f.openOK /\ ~f.grayOK THEN "DecodeError" ELSE "none"

\* st.markdown(<style>...) of the thresholding script
RtlStyle == W("markdown", <<"textarea[aria-label=Recognized text] direction: rtl">>, <<>>)

\* the presenter without its guard
MutPresenter(rt) ==
    << W("subheader", <<"Recognized text">>, <<>>),
       W("text_area", rt.s, <<"Recognized text">>),
       W("download_button", rt.s, <<"Download Text", "recognized.txt", "text/plain">>) >>

\* if result_text: subheader, text_area, download_button
Presenter(rt) ==
    IF Truthy(rt)
    THEN << W("subheader", <<"Recognized text">>, <<>>),
            W("text_area", rt.s, <<"Recognized text">>),
            W("download_button", rt.s, <<"Download Text", "recognized.txt", "text/plain">>) >>
    ELSE <<>>

\* what the script writes after the Run OCR block
AfterRunBlock(v, rt) == IF v = "plain" THEN <<>> ELSE <<RtlStyle>> \o Presenter(rt)

ButtonRendered == \E i \in 1..Len(ui) : ui[i].kind = "button"

Init ==
    /\ variant \in Variants
    /\ file = NoFile
    /\ image = "none"
    /\ pc = "Idle"
    /\ ui = <<>>
    /\ result_text = NoneText
    /\ runs = 0
    /\ proc = NoProc
    /\ loaded = "none"
    /\ calls = <<>>
    /\ fallbacks = 0
    /\ escaped = "none"
    /\ workspaces = {}
    /\ tmpdirs = <<>>
    /\ fs = [d \in Dirs |-> NoOutput]
    /\ threshold = 128
    /\ orig = NoImage /\ processed = NoImage /\ previous = NoImage
    /\ applied = 0

\* a script that serves the user while the kraken process runs
MutAwaitsUser(p) == p \in {"Idle", "Shown", "Done", "Crashed", "CliAttempted"}

\* the script is not running: the page serves the user's next interaction
AwaitsUser(p) == p \in {"Idle", "Shown", "Done", "Crashed"}

\* the user uploads a file: the script runs with the button not pressed
Upload(f) ==
    /\ AwaitsUser(pc)
    /\ file' = f
    /\ image' = DecodedImage(variant, f)
    /\ escaped' = TopEscapes(variant, f)
    /\ result_text' = NoneText
    /\ IF TopEscapes(variant, f) # "none"
       THEN pc' = "Crashed" /\ ui' = TopWidgets(variant, f)
       ELSE IF DecodedImage(variant, f) = "none"
       THEN pc' = "Idle" /\ ui' = TopWidgets(variant, f)
       ELSE pc' = "Shown"
            /\ ui' = TopWidgets(variant, f) \o AfterRunBlock(variant, NoneText)
    /\ proc' = NoProc /\ loaded' = "none" /\ calls' = <<>> /\ fallbacks' = 0
    /\ UNCHANGED <<variant, runs, workspaces, tmpdirs, fs>>
    /\ UNCHANGED tvars

\* ------------------------------------------------------ Run OCR block
\* cli_cmd, for the workspace tmpdir
CliCmd(v, tmpdir) ==
    [exe |-> "kraken",
     input |-> [dir |-> tmpdir,
                name |-> IF v = "plain" THEN "input.png" ELSE "input_processed.png"],
     output |-> [dir |-> tmpdir, name |-> "output.txt"],
     stages |-> IF v = "plain" THEN <<"ocr">> ELSE <<"binarize", "segment", "ocr">>,
     model |-> "model_path",
     threads |-> IF v = "plain" THEN "1" ELSE ""]

\* a mkdtemp that hands out the same directory again
MutNewDir(ws) == 1

\* tempfile.mkdtemp(): a directory that did not exist (the least unused name)
NewDir(ws) == CHOOSE d \in Dirs \ ws : \A e \in Dirs \ ws : d <= e

\* the image written to the CLI's input file: image.save / processed.save
SavedImage(v, f) == DecodedImage(v, f)

\* a fallback that recognizes the original image of the thresholding script
MutFallbackArg(v, f) == << IF v = "thresh" THEN "orig" ELSE DecodedImage(v, f) >>

\* the images given to the fallback calls: [image] / [processed]
FallbackArg(v, f) == << DecodedImage(v, f) >>

\* the user presses Run OCR: the script runs again from the top with the same
\* upload, makes the workspace, saves the image and starts the kraken process
RunOCR(mkdtempOK, saveOK) ==
    /\ AwaitsUser(pc)
    /\ ButtonRendered
    /\ runs < MaxRuns
    /\ result_text' = NoneText
    /\ proc' = IF mkdtempOK /\ saveOK
               THEN [NoProc EXCEPT !.outcome = "running",
                                   !.tmpdir = CliCmd(variant, NewDir(workspaces)).output.dir,
                                   !.saved = SavedImage(variant, file)]
               ELSE NoProc
    /\ loaded' = "none" /\ calls' = <<>> /\ fallbacks' = 0
    /\ runs' = IF mkdtempOK THEN runs + 1 ELSE runs
    /\ workspaces' = IF mkdtempOK THEN workspaces \cup {NewDir(workspaces)}
                     ELSE workspaces
    /\ tmpdirs' = IF mkdtempOK THEN Append(tmpdirs, NewDir(workspaces)) ELSE tmpdirs
    /\ IF mkdtempOK /\ saveOK
       THEN /\ pc' = "CliAttempted"
            /\ escaped' = "none"
            /\ ui' = TopWidgets(variant, file)
                       \o << W("text", <<"Attempting to run Kraken CLI...">>, <<>>) >>
       ELSE /\ pc' = "Crashed"
            /\ escaped' = "OSError"
            /\ ui' = TopWidgets(variant, file)
    /\ UNCHANGED <<variant, file, image, fs>>
    /\ UNCHANGED tvars

\* a handler that falls back on every failure of the CLI
MutHandler(exc) ==
    IF exc \in {"FileNotFoundError", "CalledProcessError"} THEN "fallback"
    ELSE "unexpected"

\* the except clause of the CLI try block that catches exception exc
Handler(exc) ==
    IF exc = "FileNotFoundError" THEN "fallback"
    ELSE IF exc = "CalledProcessError" THEN "cli_failed"
    ELSE "unexpected"

\* reading the output file without asking whether it exists
MutExit0Branch(exists) == "read"

\* the branch taken after subprocess.run returned: os.path.exists(output_path)
Exit0Branch(exists) == IF exists THEN "read" ELSE "no_output"

\* st.success(...) and, in the plain script, st.text_area of the text
SuccessWidgets(v, via, text) ==
    << W("success", <<via>>, <<>>) >>
      \o (IF v = "plain" THEN << W("text_area", text, <<"Recognized text">>) >>
          ELSE <<>>)

\* the else branch: st.error, st.write(proc.stdout), st.write(proc.stderr)
NoOutputWidgets(v, out, err) ==
    << W("error", IF v = "plain"
                  THEN <<"Kraken CLI ran but no output file created.">>
                  ELSE <<"Kraken CLI ran but did not produce an output file.">>, <<>>),
       W("write", <<>>, <<out>>),
       W("write", <<>>, <<err>>) >>

\* except subprocess.CalledProcessError as e
CliFailedWidgets(code, out, err) ==
    << W("error", <<"Kraken CLI failed: ", "non-zero exit status ", code>>, <<>>),
       W("write", <<"STDOUT:\n">>, <<out>>),
       W("write", <<"STDERR:\n">>, <<err>>) >>

\* except Exception as e
UnexpectedWidgets(msg) ==
    << W("error", <<"Unexpected error while running OCR: ", msg>>, <<>>) >>

\* st.warning of except FileNotFoundError
NotFoundWidgets(v) ==
    << W("warning", IF v = "plain"
                    THEN <<"Kraken CLI not found - falling back to Python API (if available).">>
                    ELSE <<"Kraken CLI not found - attempting Kraken Python API fallback.">>,
         <<>>) >>

\* a script that removes its workspace when the Run OCR block is over
MutKeptWorkspaces(ws, tmpdir) == ws \ {tmpdir}

\* the directories left when the Run OCR block is over: nothing removes tmpdir
KeptWorkspaces(ws, tmpdir) == ws

\* the Run OCR block is over: the rest of the script runs
Finish(widgets, rt) ==
    /\ pc' = "Done"
    /\ result_text' = rt
    /\ ui' = ui \o widgets \o AfterRunBlock(variant, rt)
    /\ workspaces' = KeptWorkspaces(workspaces, proc.tmpdir)

\* subprocess.run raises exc: the executable is missing, the process exits
\* non-zero (check=True), or the process cannot be started for another reason
CliRaises(exc, code, out, err) ==
    /\ pc = "CliAttempted"
    /\ exc \in {"FileNotFoundError", "CalledProcessError", "PermissionError"}
    /\ proc' = [proc EXCEPT
                  !.outcome = IF exc = "FileNotFoundError" THEN "notfound"
                              ELSE IF exc = "CalledProcessError" THEN "nonzero"
                              ELSE "oserror",
                  !.code = IF exc = "CalledProcessError" THEN code ELSE "0",
                  !.out = IF exc = "CalledProcessError" THEN out ELSE "",
                  !.err = IF exc = "CalledProcessError" THEN err ELSE ""]
    /\ CASE Handler(exc) = "fallback" ->
              /\ pc' = "FallbackLoad"
              /\ fallbacks' = fallbacks + 1
              /\ ui' = ui \o NotFoundWidgets(variant)
              /\ UNCHANGED <<result_text, workspaces>>
         [] Handler(exc) = "cli_failed" ->
              /\ Finish(CliFailedWidgets(code, out, err), result_text)
              /\ UNCHANGED fallbacks
         [] OTHER ->
              /\ Finish(UnexpectedWidgets(exc), result_text)
              /\ UNCHANGED fallbacks
    /\ UNCHANGED <<variant, file, image, runs, loaded, calls, escaped, tmpdirs, fs>>
    /\ UNCHANGED tvars

\* the kraken process exits with status 0, having written output.txt or not;
\* subprocess.run returns and the script looks for the file in its workspace
CliExitZero(out, err, wrote, bytes) ==
    /\ pc = "CliAttempted"
    /\ ~wrote => bytes = <<>>
    /\ fs' = IF wrote THEN [fs EXCEPT ![proc.tmpdir] = Output(bytes, Len(tmpdirs))]
             ELSE fs
    /\ LET found == fs'[proc.tmpdir]
       IN  /\ proc' = [proc EXCEPT !.outcome = "exit0", !.out = out, !.err = err,
                                   !.wrote = wrote, !.written = bytes,
                                   !.exists = found.exists, !.bytes = found.bytes]
           /\ IF Exit0Branch(found.exists) = "read"
              THEN IF ValidUtf8(found.bytes)
                   THEN Finish(SuccessWidgets(variant, "OCR completed via Kraken CLI",
                                              ReadText(found.bytes)),
                               IF variant = "plain" THEN result_text
                               ELSE SomeText(ReadText(found.bytes)))
                   ELSE Finish(UnexpectedWidgets("UnicodeDecodeError"), result_text)
              ELSE Finish(NoOutputWidgets(variant, out, err), result_text)
    /\ UNCHANGED <<variant, file, image, runs, loaded, calls, fallbacks, escaped, tmpdirs>>
    /\ UNCHANGED tvars

\* ------------------------------------------------------------ fallback
\* a fallback failure that drops the exception and the guidance
MutFallbackFailedWidgets(v, msg) ==
    << W("error", <<"Failed to use Kraken Python API">>, <<>>) >>

\* except Exception as e of the fallback: st.error and st.info
FallbackFailedWidgets(v, msg) ==
    << W("error", <<"Failed to use Kraken Python API: ", msg>>, <<>>),
       W("info", IF v = "plain"
                 THEN <<"Make sure the 'kraken' package is installed (pip install kraken) or the 'kraken' CLI is available in PATH">>
                 ELSE <<"Install the 'kraken' package or ensure the 'kraken' CLI is available in PATH.">>,
         <<>>) >>

\* st.text(...) between the import and load_any_model
LoadingWidgets(v) ==
    << W("text", IF v = "plain" THEN <<"Running Kraken using Python API...">>
                 ELSE <<"Loading model and running Kraken Python API...">>, <<>>) >>

\* calling rpred.rpred whatever rpred.recognize did
MutAfterRecognize(raised) == "FallbackB"

\* what follows rpred.recognize: its except clause calls rpred.rpred
AfterRecognize(raised) == IF raised THEN "FallbackB" ELSE "Done"

Call(shape, raised, preds, msg) ==
    [shape |-> shape, raised |-> raised, arg |-> FallbackArg(variant, file),
     ret |-> IF raised THEN NoPreds ELSE preds,
     msg |-> IF raised THEN msg ELSE ""]

\* preds was assigned: normalise, st.success, and the text
FallbackSuccess(preds) ==
    Finish(SuccessWidgets(variant, "OCR completed via Kraken Python API",
                          NormalizePreds(preds)),
           IF variant = "plain" THEN result_text
           ELSE SomeText(NormalizePreds(preds)))

\* from kraken import rpred, serialization; serialization.load_any_model
FallbackLoad(outcome, msg) ==
    /\ pc = "FallbackLoad"
    /\ outcome \in {"import_error", "load_error", "ok"}
    /\ loaded' = outcome
    /\ CASE outcome = "import_error" ->
              Finish(FallbackFailedWidgets(variant, msg), result_text)
         [] outcome = "load_error" ->
              Finish(LoadingWidgets(variant) \o FallbackFailedWidgets(variant, msg),
                     result_text)
         [] OTHER ->
              /\ pc' = "FallbackA"
              /\ ui' = ui \o LoadingWidgets(variant)
              /\ UNCHANGED <<result_text, workspaces>>
    /\ UNCHANGED <<variant, file, image, runs, proc, calls, fallbacks, escaped, tmpdirs, fs>>
    /\ UNCHANGED tvars

\* preds = rpred.recognize(model, [image])
CallRecognize(raised, preds, msg) ==
    /\ pc = "FallbackA"
    /\ calls' = Append(calls, Call("A", raised, preds, msg))
    /\ IF AfterRecognize(raised) = "FallbackB"
       THEN pc' = "FallbackB" /\ UNCHANGED <<ui, result_text, workspaces>>
       ELSE FallbackSuccess(preds)
    /\ UNCHANGED <<variant, file, image, runs, proc, loaded, fallbacks, escaped, tmpdirs, fs>>
    /\ UNCHANGED tvars

\* preds = rpred.rpred(model, [image])
CallRpred(raised, preds, msg) ==
    /\ pc = "FallbackB"
    /\ calls' = Append(calls, Call("B", raised, preds, msg))
    /\ IF raised
       THEN Finish(FallbackFailedWidgets(variant, msg), result_text)
       ELSE FallbackSuccess(preds)
    /\ UNCHANGED <<variant, file, image, runs, proc, loaded, fallbacks, escaped, tmpdirs, fs>>
    /\ UNCHANGED tvars

\* ------------------------------------------------------- specification
\* Run OCR, for the first MaxFullRuns invocations: the specifications that
\* draw every input from its whole set follow that many invocations
RunOCRFull(mkdtempOK, saveOK) ==
    /\ runs < MaxFullRuns
    /\ RunOCR(mkdtempOK, saveOK)

Next ==
    \/ \E f \in Files : Upload(f)
    \/ \E mk \in BOOLEAN, sv \in BOOLEAN : RunOCRFull(mk, sv)
    \/ \E exc \in {"FileNotFoundError", "CalledProcessError", "PermissionError"},
          code \in ExitCodes, out \in Outs, err \in Errs :
            CliRaises(exc, code, out, err)
    \/ \E out \in Outs, err \in Errs, wrote \in BOOLEAN, bytes \in FileContents :
            CliExitZero(out, err, wrote, bytes)
    \/ \E outcome \in {"import_error", "load_error", "ok"}, msg \in Msgs :
            FallbackLoad(outcome, msg)
    \/ \E raised \in BOOLEAN, preds \in Preds, msg \in Msgs :
            CallRecognize(raised, preds, msg)
    \/ \E raised \in BOOLEAN, preds \in Preds, msg \in Msgs :
            CallRpred(raised, preds, msg)

Spec == Init /\ [][Next]_vars

TypeOK ==
    /\ variant \in Variants
    /\ file \in Files \cup {NoFile}
    /\ image \in {"none", "L", "RGB", "BW"}
    /\ pc \in {"Idle", "Shown", "CliAttempted", "FallbackLoad", "FallbackA",
               "FallbackB", "Done", "Crashed"}
    /\ runs \in 0..MaxRuns
    /\ fallbacks \in 0..1
    /\ Len(calls) <= 2

\* ------------------------------------------------------------- reading the page
Has(kind) == \E i \in 1..Len(ui) : ui[i].kind = kind
Shows(w) == \E i \in 1..Len(ui) : ui[i] = w
ShownTexts == {ui[i].text : i \in {j \in 1..Len(ui) : ui[j].kind = "text_area"}}
Errors == {i \in 1..Len(ui) : ui[i].kind = "error"}
HasDownload == Has("download_button")
InFallback == pc \in {"FallbackLoad", "FallbackA", "FallbackB"}

\* ------------------------------------------------------------------ C1
\* C1: when the kraken process exits with status 0 and the output file exists
\* with the text T, the invocation ends in success and the text shown to the
\* user is exactly T, in both scripts.
C1_ShownTextEqualsFile ==
    (pc = "Done" /\ proc.outcome = "exit0" /\ proc.exists /\ ValidUtf8(proc.bytes))
      => /\ Has("success")
         /\ ~Has("error")
         /\ ShownTexts = {proc.bytes}

\* ------------------------------------------------------------------ C2
\* C2: when the kraken executable is not found the fallback is entered exactly
\* once; rpred.recognize (A) is the first call of the fallback, made whenever
\* the model was loaded, and rpred.rpred (B) is called if and only if A raised,
\* and only after A.
C2_FallbackOnceAThenB ==
    proc.outcome = "notfound"
      => /\ fallbacks = 1
         /\ Len(calls) <= 2
         /\ Len(calls) >= 1 => calls[1].shape = "A"
         /\ Len(calls) = 2 => calls[2].shape = "B" /\ calls[1].raised
         /\ (loaded = "ok" /\ pc # "FallbackA") => Len(calls) >= 1
         /\ (Len(calls) >= 1 /\ pc = "Done") => (calls[1].raised <=> Len(calls) = 2)
         /\ (Len(calls) = 1 /\ calls[1].raised) => pc = "FallbackB"

C2_Witness ==
    /\ pc = "Done" /\ proc.outcome = "notfound"
    /\ Len(calls) = 2 /\ calls[1].raised /\ ~calls[2].raised

\* ------------------------------------------------------------------ C3
\* C3: when the process exits with status 0 and the output file does not
\* exist, the outcome is the "ran but no output file" error with the captured
\* stdout and stderr, whatever they are; the fallback is not attempted and no
\* recognized text is displayed.
C3_RanEmpty ==
    (pc = "Done" /\ proc.outcome = "exit0" /\ ~proc.exists)
      => /\ Cardinality(Errors) = 1
         /\ \A i \in Errors :
              ui[i].text \in {<<"Kraken CLI ran but no output file created.">>,
                              <<"Kraken CLI ran but did not produce an output file.">>}
         /\ Shows(W("write", <<>>, <<proc.out>>))
         /\ Shows(W("write", <<>>, <<proc.err>>))
         /\ fallbacks = 0 /\ loaded = "none" /\ calls = <<>>
         /\ ~Has("warning")
         /\ ~Has("success") /\ ~Has("text_area") /\ ~HasDownload

C3_Witness ==
    /\ pc = "Done" /\ proc.outcome = "exit0" /\ ~proc.exists
    /\ proc.out = "out" /\ proc.err = "err"

\* ------------------------------------------------------------------ C4
\* C4: when the process exits with a non-zero status the outcome is a failure
\* that carries the process's stdout and stderr, and the fallback is not
\* attempted; the fallback is entered only when the executable was not found.
C4_NonZeroFailsWithoutFallback ==
    /\ (pc = "Done" /\ proc.outcome = "nonzero")
         => /\ Cardinality(Errors) = 1
            /\ \A i \in Errors : ui[i].text[1] = "Kraken CLI failed: "
            /\ Shows(W("write", <<"STDOUT:\n">>, <<proc.out>>))
            /\ Shows(W("write", <<"STDERR:\n">>, <<proc.err>>))
            /\ ~Has("success") /\ ~Has("text_area")
    /\ (InFallback \/ fallbacks > 0 \/ loaded # "none" \/ calls # <<>> \/ Has("warning"))
         => proc.outcome = "notfound"

C4_Witness ==
    /\ pc = "Done" /\ proc.outcome = "nonzero"
    /\ proc.out = "out" /\ proc.err = "err"

\* ------------------------------------------------------------------ C5
\* C5: when the executable is not found and both fallback calls raise, the
\* outcome is the "Failed to use Kraken Python API" error carrying the message
\* of the exception, followed by the install guidance, and no recognized text
\* is displayed.
C5_FallbackUnavailable ==
    (pc = "Done" /\ proc.outcome = "notfound" /\ Len(calls) = 2
       /\ calls[1].raised /\ calls[2].raised)
      => /\ Cardinality(Errors) = 1
         /\ Shows(W("error", <<"Failed to use Kraken Python API: ", calls[2].msg>>, <<>>))
         /\ \E i \in 1..Len(ui) - 1 : ui[i].kind = "error" /\ ui[i + 1].kind = "info"
         /\ ~Has("success") /\ ~Has("text_area") /\ ~HasDownload

C5_Witness ==
    /\ pc = "Done" /\ proc.outcome = "notfound" /\ Len(calls) = 2
    /\ calls[1].raised /\ calls[2].raised /\ calls[1].msg # calls[2].msg

\* ------------------------------------------------------------------ C6
\* the text the claim expects of a fallback result
JoinedStrings(items) ==
    Join([i \in 1..Len(items) |-> StrOfElem(items[i])], <<"\n">>)

ExpectedText(preds) ==
    IF preds.type \in {"list", "tuple"} THEN JoinedStrings(preds.items)
    ELSE StrOfElem(preds.items[1])

LastCall == calls[Len(calls)]

\* C6: whenever a fallback call returns a result, the reported text is the
\* string forms of its elements joined with newlines when the result is a
\* sequence, and the string form of the result otherwise.
C6_FallbackTextNormalized ==
    (pc = "Done" /\ calls # <<>> /\ ~LastCall.raised)
      => ShownTexts = {ExpectedText(LastCall.ret)}

\* ------------------------------------------------------------------ C7
\* C7: no exception raised while handling an upload and a Run OCR trigger
\* leaves the script; each is turned into a message on the page.
C7_NoExceptionEscapes ==
    escaped = "none" /\ pc # "Crashed"

\* ------------------------------------------------------------------ C8
DownloadOf(text) ==
    W("download_button", text, <<"Download Text", "recognized.txt", "text/plain">>)

C9_ExactlyOneOutcome ==
    pc = "Done"
      => /\ Has("success") <=> ~Has("error")
         /\ Cardinality(Errors) <= 1
         /\ Has("success") <=> Has("text_area")

\* ----------------------------------------------------------------- C10
Undecodable == file.present /\ DecodedImage(variant, file) = "none"

\* C10: when the upload cannot be decoded, an error message is shown, no image
\* is displayed, Run OCR cannot be triggered, and no workspace, CLI run or
\* fallback follows for that upload.
C10_DecodeErrorSurfaced ==
    Undecodable
      => /\ Has("error")
         /\ ~Has("image")
         /\ ~ButtonRendered
         /\ proc.outcome = "none" /\ fallbacks = 0 /\ calls = <<>>
         /\ pc \in {"Idle", "Crashed"}

\* ---------------------------------------------- threshold specification
mainvars == <<variant, file, image, pc, ui, result_text, runs, proc, loaded,
              calls, fallbacks, escaped, workspaces, tmpdirs, fs>>

\* the thresholding script with an upload opened and the slider at any cutoff
InitThreshold ==
    /\ variant = "thresh"
    /\ file = NoFile /\ image = "none" /\ pc = "Idle" /\ ui = <<>>
    /\ result_text = NoneText /\ runs = 0 /\ proc = NoProc /\ loaded = "none"
    /\ calls = <<>> /\ fallbacks = 0 /\ escaped = "none"
    /\ workspaces = {} /\ tmpdirs = <<>> /\ fs = [d \in Dirs |-> NoOutput]
    /\ threshold \in Intensities
    /\ orig \in Images
    /\ processed = NoImage /\ previous = NoImage
    /\ applied = 0

\* processed = apply_threshold(orig, threshold)
ApplyThreshold ==
    /\ applied = 0
    /\ processed' = apply_threshold(orig, threshold)
    /\ previous' = NoImage
    /\ applied' = 1
    /\ UNCHANGED <<threshold, orig, mainvars>>

\* apply_threshold applied to its own result, with the same cutoff
Reapply ==
    /\ applied >= 1 /\ applied < MaxApply
    /\ previous' = processed
    /\ processed' = apply_threshold(processed, threshold)
    /\ applied' = applied + 1
    /\ UNCHANGED <<threshold, orig, mainvars>>

NextThreshold == ApplyThreshold \/ Reapply

SpecThreshold == InitThreshold /\ [][NextThreshold]_vars

\* ----------------------------------------------------------------- C11
\* the grayscale intensity of pixel k of the upload
GrayOf(k) == ConvertL(orig).px[k][1]

\* C11: apply_threshold maps each pixel independently: for every cutoff c and
\* grayscale intensity v in 0..255 the output pixel is 255 if v > c and 0
\* otherwise; cutoff 255 maps every pixel to 0, cutoff 0 maps every v > 0 to
\* 255 and v = 0 to 0.
C11_ThresholdPerPixel ==
    applied = 1
      => /\ processed.mode = "L"
         /\ Len(processed.px) = Len(orig.px)
         /\ \A k \in 1..Len(orig.px) :
              /\ GrayOf(k) > threshold => processed.px[k] = <<255>>
              /\ GrayOf(k) <= threshold => processed.px[k] = <<0>>
              /\ threshold = 255 => processed.px[k] = <<0>>
              /\ (threshold = 0 /\ GrayOf(k) > 0) => processed.px[k] = <<255>>
              /\ (threshold = 0 /\ GrayOf(k) = 0) => processed.px[k] = <<0>>

C11_Witness ==
    /\ applied = 1 /\ Len(orig.px) = 2
    /\ processed.px[1] = <<0>> /\ processed.px[2] = <<255>>

\* ----------------------------------------------------------------- C12
\* C12: apply_threshold is idempotent for a fixed cutoff: applied to its own
\* result with the same cutoff it returns that result, for every cutoff and
\* intensity in 0..255, the cutoffs 0 and 255 included.
C12_ThresholdIdempotent ==
    applied >= 2 => processed = previous

C12_Witness ==
    /\ applied = 2 /\ threshold = 254
    /\ orig = Img("L", <<(<<255>>)>>)
    /\ previous.px = <<(<<255>>)>> /\ processed.px = <<(<<255>>)>>

\* ------------------------------------- sequences of invocations
\* fallback results of at most one element
ShortPreds == {p \in Preds : Len(p.items) <= 1}

\* up to MaxRuns invocations, one after the other; the inputs that do not
\* reach the workspaces (exit code, stdout, stderr, exception messages) are
\* fixed, the output file and the outcome of every step are not
NextRuns ==
    \/ \E f \in Files : Upload(f)
    \/ \E mk \in BOOLEAN, sv \in BOOLEAN : RunOCR(mk, sv)
    \/ \E exc \in {"FileNotFoundError", "CalledProcessError", "PermissionError"} :
            CliRaises(exc, "1", "out", "err")
    \/ \E wrote \in BOOLEAN, bytes \in FileContents :
            CliExitZero("out", "err", wrote, bytes)
    \/ \E outcome \in {"import_error", "load_error", "ok"} :
            FallbackLoad(outcome, "m1")
    \/ \E raised \in BOOLEAN, preds \in ShortPreds :
            CallRecognize(raised, preds, "m1")
    \/ \E raised \in BOOLEAN, preds \in ShortPreds :
            CallRpred(raised, preds, "m1")

SpecRuns == Init /\ [][NextRuns]_vars

\* ----------------------------------------------------------------- C13
\* C13: every Run OCR invocation (whose mkdtemp call returned) has its own
\* fresh workspace, and no exit path removes it: after n such invocations
\* there are n distinct workspaces and no two invocations share one.
C13_WorkspacesKeptAndDistinct ==
    /\ Len(tmpdirs) = runs
    /\ \A i, j \in 1..Len(tmpdirs) : i # j => tmpdirs[i] # tmpdirs[j]
    /\ workspaces = {tmpdirs[i] : i \in 1..Len(tmpdirs)}
    /\ Cardinality(workspaces) = runs
    /\ proc.outcome # "none" => proc.tmpdir = tmpdirs[Len(tmpdirs)]

C13_Witness ==
    /\ pc = "Done" /\ runs = 2 /\ Cardinality(workspaces) = 2
    /\ proc.outcome = "nonzero" /\ fs[tmpdirs[1]].exists

\* ----------------------------------------------------------------- C15
\* C15: whenever the fallback is attempted, each fallback call receives a
\* one-element sequence holding exactly the image that was saved as the CLI
\* input of that invocation: the grayscale/RGB image in the plain script, the
\* thresholded image in the thresholding script.
C15_FallbackSeesSavedImage ==
    /\ InFallback => proc.saved # "none"
    /\ \A i \in 1..Len(calls) :
         /\ Len(calls[i].arg) = 1
         /\ calls[i].arg = <<proc.saved>>
         /\ variant = "plain" => calls[i].arg[1] \in {"L", "RGB"}
         /\ variant = "thresh" => calls[i].arg[1] = "BW"

C15_Witness ==
    /\ variant = "thresh" /\ Len(calls) = 2 /\ proc.saved = "BW"

\* ----------------------------------------------------------------- C16
\* the text this invocation itself produced, if any
OwnTexts ==
    (IF proc.outcome = "exit0" /\ proc.wrote /\ ValidUtf8(proc.written)
     THEN {ReadText(proc.written)} ELSE {})
      \cup (IF proc.outcome = "notfound" /\ calls # <<>> /\ ~LastCall.raised
            THEN {NormalizePreds(LastCall.ret)} ELSE {})

\* C16: the recognized text displayed after an invocation comes only from
\* that invocation (the output file its own process wrote in its own
\* workspace, or its own fallback result): it never reads an output file an
\* earlier invocation wrote, and an invocation that fails displays no
\* recognized text even when an earlier one succeeded.
C16_TextFromOwnInvocation ==
    /\ ShownTexts \subseteq OwnTexts
    /\ pc = "Done" =>
         /\ proc.exists => (proc.wrote /\ fs[proc.tmpdir].writer = Len(tmpdirs))
         /\ Has("error") => (ShownTexts = {} /\ ~HasDownload)
    /\ \A i \in 1..Len(ui) : ui[i].kind = "download_button" => ui[i].text \in OwnTexts

C16_Witness ==
    /\ pc = "Done" /\ Len(tmpdirs) = 2
    /\ Has("error") /\ ShownTexts = {}
    /\ fs[tmpdirs[1]].exists /\ fs[tmpdirs[1]].bytes = <<"a">>

\* ------------------------------------------- specification with fairness
\* the kraken process terminates or fails to start: subprocess.run is over
CliTerminates ==
    \/ \E exc \in {"FileNotFoundError", "CalledProcessError", "PermissionError"},
          code \in ExitCodes, out \in Outs, err \in Errs :
            CliRaises(exc, code, out, err)
    \/ \E out \in Outs, err \in Errs, wrote \in BOOLEAN, bytes \in FileContents :
            CliExitZero(out, err, wrote, bytes)

\* the import, load_any_model or a fallback call returns or raises
FallbackReturns ==
    \/ \E outcome \in {"import_error", "load_error", "ok"}, msg \in Msgs :
            FallbackLoad(outcome, msg)
    \/ \E raised \in BOOLEAN, preds \in Preds, msg \in Msgs :
            CallRecognize(raised, preds, msg)
    \/ \E raised \in BOOLEAN, preds \in Preds, msg \in Msgs :
            CallRpred(raised, preds, msg)

NextLive ==
    \/ \E f \in Files : Upload(f)
    \/ \E mk \in BOOLEAN, sv \in BOOLEAN : RunOCRFull(mk, sv)
    \/ CliTerminates
    \/ FallbackReturns

\* the external process and the library calls are assumed to come to an end
SpecLive ==
    Init /\ [][NextLive]_vars /\ WF_vars(CliTerminates) /\ WF_vars(FallbackReturns)

\* ----------------------------------------------------------------- C14
\* C14: the CLI call blocks without timeout: if the external process
\* terminates or fails to start, and every fallback call returns or raises,
\* an invocation that started the process reaches Done; the only steps that
\* leave CliAttempted are the ends of the process, so a process that never
\* terminates keeps the invocation in CliAttempted.
C14_BlocksUntilProcessEnds ==
    /\ (pc = "CliAttempted") ~> (pc = "Done")
    /\ [][(pc = "CliAttempted" /\ pc' # "CliAttempted")
            => /\ proc.outcome = "running"
               /\ proc'.outcome \in {"notfound", "nonzero", "oserror", "exit0"}
               /\ pc' \in {"Done", "FallbackLoad"}]_vars

C14_Witness ==
    /\ pc = "Done" /\ proc.outcome = "notfound" /\ loaded = "load_error"

====
